---- MODULE Spec2Model ----
(***************************************************************************)
(* Model of the special-offer Deal type of src/src/database/types.rs:      *)
(* construction from the three storage columns (try_from_repr, from_repr), *)
(* conversion back to the columns (database_repr) and the average discount *)
(* (average_discount), and the price of a purchase (discounted_price).     *)
(*                                                                         *)
(* Decimal values are modelled by integers (a price in its smallest unit); *)
(* on them Decimal's comparison, addition, subtraction and multiplication  *)
(* are exact.  Decimal division is modelled by an exact fraction.          *)
(***************************************************************************)
EXTENDS Integers, Sequences, FiniteSets, TLC

VARIABLES
    new_price,      \* Option<Decimal>: column new_price
    quantity1,      \* Option<i32>: column quantity1
    quantity2,      \* Option<i32>: column quantity2
    base_price,     \* Decimal: price of the product
    call,           \* which constructor the caller used
    pc,             \* position of the caller
    result,         \* value returned by the constructor
    repr,           \* value returned by database_repr
    result2,        \* value returned by the second construction, from repr
    discount,       \* value returned by average_discount
    offer,          \* arguments of discounted_price / create_special_offer
    priced,         \* value returned by discounted_price
    columns,        \* value returned by database_repr for offer.deal
    inserted,       \* outcome of create_special_offer
    categories,     \* rows of the table categories
    forest,         \* outcome of category_trees
    thread,         \* rows of the tables reviews and comments, and the caller
    reviewed,       \* outcome of product_reviews / product_reviews_as
    amount_in,      \* arguments of the Amount constructors
    amount,         \* value returned by an Amount constructor
    rating_in,      \* arguments of AverageRating::new
    average,        \* value returned by AverageRating::new, with its getters
    shown,          \* text written by Display for AverageRating
    review_votes,   \* rows of the table review_votes
    comment_votes,  \* rows of the table comment_votes
    vote_result,    \* outcome of the last set_vote_review / set_vote_comment
    calls,          \* number of set_vote_review / set_vote_comment calls so far
    fetched,        \* sum_votes of the rows a running read has fetched
    stack,          \* frames of the build_tree calls in progress
    buckets,        \* the map by_parent of category_trees
    entered,        \* how often build_tree was entered, per category id
    walk_pc,        \* position of category_trees, step by step
    checkout_in,    \* arguments of checkout and the outcome of its query
    checked_out,    \* outcome of checkout
    purchases,      \* rows fetched by the query of orders
    grouped         \* outcome of orders

dealVars == <<new_price, quantity1, quantity2, base_price, call, pc, result,
              repr, result2, discount>>
priceVars == <<offer, priced, columns, inserted>>
categoryVars == <<categories, forest>>
reviewVars == <<thread, reviewed>>
amountVars == <<amount_in, amount>>
ratingVars == <<rating_in, average, shown>>
voteVars == <<review_votes, comment_votes, vote_result, calls, fetched>>
walkVars == <<stack, buckets, entered, walk_pc>>
procVars == <<checkout_in, checked_out>>
orderVars == <<purchases, grouped>>
moreVars == <<voteVars, walkVars, procVars, orderVars>>
notDealVars == <<priceVars, categoryVars, reviewVars, amountVars, ratingVars,
                 moreVars>>

vars == <<dealVars, notDealVars>>

----------------------------------------------------------------------------
(* Bounds of the model. *)

MaxPrice == 3
MaxQuantity == 3
MaxNegative == 1

(* The machine word.  TLC's integers are 32 bits wide and signed, so        *)
(* u32::MAX cannot be written in the model.  The 32-bit types i32 and u32  *)
(* are modelled by a narrower word that keeps their relation: I32_MAX      *)
(* stands for i32::MAX, the largest value of a quantity column, and        *)
(* U32_MAX = 2 * I32_MAX + 1 for u32::MAX.                                 *)
I32_MAX == 127
U32_MAX == 2 * I32_MAX + 1

----------------------------------------------------------------------------
(* Option and Result. *)

None == [some |-> FALSE]
Some(x) == [some |-> TRUE, val |-> x]

Ok(x) == [ok |-> TRUE, val |-> x]
Err(e) == [ok |-> FALSE, err |-> e]

DealError == {"ZeroPrice", "OutOfRange", "InvalidVariant", "NoDiscount"}

(* DealImpl: the three variants. *)
Discount(p) == [kind |-> "Discount", new_price |-> p]
Batch(t, p) == [kind |-> "Batch", take |-> t, pay_for |-> p]
BatchPrice(t, p) == [kind |-> "BatchPrice", take |-> t, pay |-> p]

(* u32::try_from(q).ok().and_then(NonZeroU32::new) of an i32 q. *)
NonZeroU32FromI32(q) == IF q > 0 THEN Some(q) ELSE None

(* A cast of a u32 to i32 that wraps instead of failing. *)
I32FromU32_Wrapping(q) ==
    Some(IF q <= I32_MAX THEN q ELSE q - 2 * (I32_MAX + 1))

(* i32::try_from of a u32 (the try_into of database_repr). *)
I32FromU32(q) == IF q <= I32_MAX THEN Some(q) ELSE None

----------------------------------------------------------------------------
(* Deal::try_from_repr, arm by arm. *)

(* DiscountArm without the comparison with the base price. *)
DiscountArm_NoTest(np, bp) ==
    IF np < 0 THEN Err("OutOfRange")
    ELSE Ok(Some(Discount(np)))

(* DiscountArm accepting a new price equal to the base price. *)
DiscountArm_EqualAccepted(np, bp) ==
    IF np < 0 THEN Err("OutOfRange")
    ELSE IF np > bp THEN Err("NoDiscount")
    ELSE Ok(Some(Discount(np)))

(* (Some(new_price), None, None) *)
DiscountArm(np, bp) ==
    IF np < 0 THEN Err("OutOfRange")
    ELSE IF np >= bp THEN Err("NoDiscount")
    ELSE Ok(Some(Discount(np)))

(* BatchArm without the comparison of take and pay_for. *)
BatchArm_NoTest(take, pay_for) ==
    IF NonZeroU32FromI32(take).some /\ NonZeroU32FromI32(pay_for).some
    THEN Ok(Some(Batch(NonZeroU32FromI32(take).val,
                       NonZeroU32FromI32(pay_for).val)))
    ELSE Err("OutOfRange")

(* BatchArm accepting take = pay_for. *)
BatchArm_EqualAccepted(take, pay_for) ==
    IF take < pay_for THEN Err("NoDiscount")
    ELSE IF NonZeroU32FromI32(take).some /\ NonZeroU32FromI32(pay_for).some
         THEN Ok(Some(Batch(NonZeroU32FromI32(take).val,
                            NonZeroU32FromI32(pay_for).val)))
         ELSE Err("OutOfRange")

(* (None, Some(take), Some(pay_for)) *)
BatchArm(take, pay_for) ==
    IF take <= pay_for THEN Err("NoDiscount")
    ELSE IF NonZeroU32FromI32(take).some /\ NonZeroU32FromI32(pay_for).some
         THEN Ok(Some(Batch(NonZeroU32FromI32(take).val,
                            NonZeroU32FromI32(pay_for).val)))
         ELSE Err("OutOfRange")

(* BatchPriceArm comparing pay with the price of take units. *)
BatchPriceArm_PerBatch(pay, take, bp) ==
    IF pay >= bp * take THEN Err("NoDiscount")
    ELSE IF NonZeroU32FromI32(take).some
         THEN Ok(Some(IF NonZeroU32FromI32(take).val = 1
                      THEN Discount(pay)
                      ELSE BatchPrice(NonZeroU32FromI32(take).val, pay)))
         ELSE Err("OutOfRange")

(* BatchPriceArm without the take = 1 case. *)
BatchPriceArm_NoCanonical(pay, take, bp) ==
    IF pay * take >= bp THEN Err("NoDiscount")
    ELSE IF NonZeroU32FromI32(take).some
         THEN Ok(Some(BatchPrice(NonZeroU32FromI32(take).val, pay)))
         ELSE Err("OutOfRange")

(* (Some(pay), Some(take), None) *)
BatchPriceArm(pay, take, bp) ==
    IF pay * take >= bp THEN Err("NoDiscount")
    ELSE IF NonZeroU32FromI32(take).some
         THEN Ok(Some(IF NonZeroU32FromI32(take).val = 1
                      THEN Discount(pay)
                      ELSE BatchPrice(NonZeroU32FromI32(take).val, pay)))
         ELSE Err("OutOfRange")

(* try_from_repr ignoring a stray quantity2 next to a price. *)
try_from_repr_LooseShape(np, q1, q2, bp) ==
    IF bp <= 0 THEN Err("ZeroPrice")
    ELSE IF np.some /\ ~q1.some /\ ~q2.some THEN DiscountArm(np.val, bp)
    ELSE IF ~np.some /\ q1.some /\ q2.some THEN BatchArm(q1.val, q2.val)
    ELSE IF np.some /\ q1.some THEN BatchPriceArm(np.val, q1.val, bp)
    ELSE IF ~np.some /\ ~q1.some /\ ~q2.some THEN Ok(None)
    ELSE Err("InvalidVariant")

(* try_from_repr testing the base price only after the all-None tuple. *)
try_from_repr_LateZeroPrice(np, q1, q2, bp) ==
    IF ~np.some /\ ~q1.some /\ ~q2.some THEN Ok(None)
    ELSE IF bp <= 0 THEN Err("ZeroPrice")
    ELSE IF np.some /\ ~q1.some /\ ~q2.some THEN DiscountArm(np.val, bp)
    ELSE IF ~np.some /\ q1.some /\ q2.some THEN BatchArm(q1.val, q2.val)
    ELSE IF np.some /\ q1.some /\ ~q2.some THEN BatchPriceArm(np.val, q1.val, bp)
    ELSE Err("InvalidVariant")

try_from_repr(np, q1, q2, bp) ==
    IF bp <= 0 THEN Err("ZeroPrice")
    ELSE IF np.some /\ ~q1.some /\ ~q2.some THEN DiscountArm(np.val, bp)
    ELSE IF ~np.some /\ q1.some /\ q2.some THEN BatchArm(q1.val, q2.val)
    ELSE IF np.some /\ q1.some /\ ~q2.some THEN BatchPriceArm(np.val, q1.val, bp)
    ELSE IF ~np.some /\ ~q1.some /\ ~q2.some THEN Ok(None)
    ELSE Err("InvalidVariant")

(* Deal::from_repr: try_from_repr(..)?.ok_or(InvalidVariant) *)
from_repr(np, q1, q2, bp) ==
    LET r == try_from_repr(np, q1, q2, bp)
    IN  IF ~r.ok THEN r
        ELSE IF r.val.some THEN Ok(r.val.val)
        ELSE Err("InvalidVariant")

(* Deal::database_repr *)
database_repr(deal) ==
    CASE deal.kind = "Discount" -> Some(<<Some(deal.new_price), None, None>>)
      [] deal.kind = "Batch" ->
            IF I32FromU32(deal.take).some /\ I32FromU32(deal.pay_for).some
            THEN Some(<<None, Some(I32FromU32(deal.take).val),
                        Some(I32FromU32(deal.pay_for).val)>>)
            ELSE None
      [] deal.kind = "BatchPrice" ->
            IF I32FromU32(deal.take).some
            THEN Some(<<Some(deal.pay), Some(I32FromU32(deal.take).val), None>>)
            ELSE None

(* Exact fractions, denominator positive; 1 - n/d. *)
Frac(n, d) == [num |-> n, den |-> d]
OneMinus(n, d) == Frac(d - n, d)

(* Deal::average_discount; bp # 0 (the function panics on 0). *)
average_discount(deal, bp) ==
    CASE deal.kind = "Discount" -> OneMinus(deal.new_price, bp)
      [] deal.kind = "Batch" -> OneMinus(deal.pay_for, deal.take)
      [] deal.kind = "BatchPrice" -> OneMinus(deal.pay, bp * deal.take)

----------------------------------------------------------------------------
(* The caller: picks the columns and the base price, constructs a Deal,    *)
(* then asks for its discount or stores it and loads it again.             *)

Prices == (0 - MaxNegative)..MaxPrice
Quantities == (0 - MaxNegative)..MaxQuantity
Opt(S) == {None} \cup {Some(x) : x \in S}

NoValue == [unset |-> TRUE]

(* The variables of the other operations, while they are not used. *)
PriceIdle ==
    /\ offer = NoValue
    /\ priced = NoValue
    /\ columns = NoValue
    /\ inserted = NoValue

CategoryIdle == categories = NoValue /\ forest = NoValue
ReviewIdle == thread = NoValue /\ reviewed = NoValue
AmountIdle == amount_in = NoValue /\ amount = NoValue
RatingIdle == rating_in = NoValue /\ average = NoValue /\ shown = NoValue
VoteIdle ==
    /\ review_votes = NoValue
    /\ comment_votes = NoValue
    /\ vote_result = NoValue
    /\ calls = 0
    /\ fetched = NoValue
WalkIdle ==
    /\ stack = NoValue
    /\ buckets = NoValue
    /\ entered = NoValue
    /\ walk_pc = "idle"
ProcIdle == checkout_in = NoValue /\ checked_out = NoValue
OrderIdle == purchases = NoValue /\ grouped = NoValue
MoreIdle == VoteIdle /\ WalkIdle /\ ProcIdle /\ OrderIdle

Init ==
    /\ new_price \in Opt(Prices)
    /\ quantity1 \in Opt(Quantities)
    /\ quantity2 \in Opt(Quantities)
    /\ base_price \in Prices
    /\ call = "none"
    /\ pc = "input"
    /\ result = NoValue
    /\ repr = NoValue
    /\ result2 = NoValue
    /\ discount = NoValue
    /\ PriceIdle /\ CategoryIdle /\ ReviewIdle /\ AmountIdle /\ RatingIdle
    /\ MoreIdle

(* The Deal of a constructor's return value, if it returned one. *)
HasDeal(c, r) == r.ok /\ (c = "try_from_repr" => r.val.some)
DealOf(c, r) == IF c = "try_from_repr" THEN r.val.val ELSE r.val

TryFromRepr ==
    /\ pc = "input"
    /\ call' = "try_from_repr"
    /\ result' = try_from_repr(new_price, quantity1, quantity2, base_price)
    /\ pc' = "constructed"
    /\ UNCHANGED <<new_price, quantity1, quantity2, base_price, repr, result2,
                   discount, notDealVars>>

FromRepr ==
    /\ pc = "input"
    /\ call' = "from_repr"
    /\ result' = from_repr(new_price, quantity1, quantity2, base_price)
    /\ pc' = "constructed"
    /\ UNCHANGED <<new_price, quantity1, quantity2, base_price, repr, result2,
                   discount, notDealVars>>

AverageDiscount ==
    /\ pc = "constructed"
    /\ HasDeal(call, result)
    /\ discount' = average_discount(DealOf(call, result), base_price)
    /\ pc' = "discounted"
    /\ UNCHANGED <<new_price, quantity1, quantity2, base_price, call, result,
                   repr, result2, notDealVars>>

DatabaseRepr ==
    /\ pc = "constructed"
    /\ HasDeal(call, result)
    /\ repr' = database_repr(DealOf(call, result))
    /\ pc' = "stored"
    /\ UNCHANGED <<new_price, quantity1, quantity2, base_price, call, result,
                   result2, discount, notDealVars>>

Reconstruct ==
    /\ pc = "stored"
    /\ repr.some
    /\ result2' = IF call = "try_from_repr"
                  THEN try_from_repr(repr.val[1], repr.val[2], repr.val[3],
                                     base_price)
                  ELSE from_repr(repr.val[1], repr.val[2], repr.val[3],
                                 base_price)
    /\ pc' = "reloaded"
    /\ UNCHANGED <<new_price, quantity1, quantity2, base_price, call, result,
                   repr, discount, notDealVars>>

Next ==
    \/ TryFromRepr
    \/ FromRepr
    \/ AverageDiscount
    \/ DatabaseRepr
    \/ Reconstruct

Spec == Init /\ [][Next]_vars

----------------------------------------------------------------------------
(* Properties of Deal construction. *)

Constructed == pc # "input"
Shape == <<new_price.some, quantity1.some, quantity2.some>>
DiscountShape == Shape = <<TRUE, FALSE, FALSE>>
BatchShape == Shape = <<FALSE, TRUE, TRUE>>
BatchPriceShape == Shape = <<TRUE, TRUE, FALSE>>
EmptyShape == Shape = <<FALSE, FALSE, FALSE>>
Returned(d) == HasDeal(call, result) /\ DealOf(call, result) = d
ReturnedKind(k) == HasDeal(call, result) /\ DealOf(call, result).kind = k
Failed(e) == ~result.ok /\ result.err = e

(* C1: every Deal that construction returns has a storage tuple            *)
(* (database_repr is Some), and constructing again from that tuple with    *)
(* the same base price succeeds and returns an equal Deal.                 *)
C1_RoundTrip ==
    /\ (pc \in {"stored", "reloaded"} => repr.some)
    /\ (pc = "reloaded" =>
            /\ HasDeal(call, result2)
            /\ DealOf(call, result2) = DealOf(call, result))

(* C2: for every Deal that construction returns for a tuple and base price *)
(* b, average_discount(b) is strictly between 0 and 1.                     *)
C2_DiscountPositivity ==
    pc = "discounted" =>
        /\ discount.den > 0
        /\ 0 < discount.num
        /\ discount.num < discount.den

(* C3: with base_price > 0 the presence pattern of the three columns alone *)
(* selects the shape: (Some, None, None) is handled as Discount, (None,    *)
(* Some, Some) as Batch, (Some, Some, None) as BatchPrice, the all-None    *)
(* tuple gives Ok(None) from try_from_repr, and each of the four other     *)
(* patterns gives InvalidVariant and never a Deal.                         *)
C3_ShapeResolution ==
    Constructed /\ base_price > 0 =>
        IF DiscountShape
        THEN /\ ~Failed("InvalidVariant")
             /\ result.ok => ReturnedKind("Discount")
        ELSE IF BatchShape
        THEN /\ ~Failed("InvalidVariant")
             /\ result.ok => ReturnedKind("Batch")
        ELSE IF BatchPriceShape
        THEN /\ ~Failed("InvalidVariant")
             /\ result.ok => \/ ReturnedKind("BatchPrice")
                             \/ ReturnedKind("Discount") /\ quantity1.val = 1
        ELSE IF EmptyShape
        THEN IF call = "try_from_repr" THEN result = Ok(None)
             ELSE Failed("InvalidVariant")
        ELSE Failed("InvalidVariant")

C3_Witness ==
    /\ pc = "constructed"
    /\ call = "try_from_repr"
    /\ base_price = 3
    /\ Shape = <<TRUE, TRUE, TRUE>>
    /\ new_price.val = 1 /\ quantity1.val = 2 /\ quantity2.val = 1
    /\ Failed("InvalidVariant")

(* C4: from (Some(new_price), None, None) with base_price > 0 construction *)
(* fails with NoDiscount when new_price >= base_price (equal or greater)   *)
(* and returns Discount{new_price} when 0 <= new_price < base_price.       *)
C4_NoDiscountSalePrice ==
    Constructed /\ base_price > 0 /\ DiscountShape =>
        /\ new_price.val >= base_price => Failed("NoDiscount")
        /\ 0 <= new_price.val /\ new_price.val < base_price =>
                Returned(Discount(new_price.val))

C4_Witness ==
    /\ pc = "constructed"
    /\ DiscountShape
    /\ base_price > 0
    /\ new_price.val = base_price
    /\ Failed("NoDiscount")

(* C5: from (None, Some(take), Some(pay_for)) with both quantities         *)
(* positive and base_price > 0 construction returns Batch{take, pay_for}   *)
(* if and only if take > pay_for, and NoDiscount when take <= pay_for.     *)
C5_BatchDiscountTest ==
    /\ Constructed /\ base_price > 0 /\ BatchShape
    /\ quantity1.val > 0 /\ quantity2.val > 0
    =>
        /\ Returned(Batch(quantity1.val, quantity2.val))
                <=> quantity1.val > quantity2.val
        /\ result.ok => Returned(Batch(quantity1.val, quantity2.val))
        /\ quantity1.val <= quantity2.val => Failed("NoDiscount")

C5_Witness ==
    /\ pc = "constructed"
    /\ BatchShape
    /\ base_price > 0
    /\ quantity1.val = quantity2.val /\ quantity1.val > 0
    /\ Failed("NoDiscount")

C7_CanonicalForm ==
    Constructed /\ HasDeal(call, result) =>
        /\ ~(ReturnedKind("BatchPrice") /\ DealOf(call, result).take = 1)
        /\ BatchPriceShape /\ quantity1.val = 1 =>
                Returned(Discount(new_price.val))

C7_Witness ==
    /\ pc = "constructed"
    /\ BatchPriceShape
    /\ quantity1.val = 1
    /\ new_price.val > 0
    /\ Returned(Discount(new_price.val))

(* C8: with base_price <= 0 construction fails with ZeroPrice for every    *)
(* tuple, the all-None tuple and the invalid shapes included.              *)
C8_ZeroPrice ==
    Constructed /\ base_price <= 0 => Failed("ZeroPrice")

C8_Witness ==
    /\ pc = "constructed"
    /\ call = "try_from_repr"
    /\ base_price = 0
    /\ EmptyShape
    /\ Failed("ZeroPrice")

(* C9: with base_price > 0 construction returns OutOfRange for every       *)
(* supplied price (new_price or pay) that is negative, and a price of 0 is *)
(* accepted only in the Discount shape: (Some(0), Some(take), None)        *)
(* returns OutOfRange.                                                     *)
C9_PriceRange ==
    Constructed /\ base_price > 0 /\ (DiscountShape \/ BatchPriceShape) =>
        /\ new_price.val < 0 => Failed("OutOfRange")
        /\ new_price.val = 0 /\ BatchPriceShape => Failed("OutOfRange")
        /\ new_price.val = 0 /\ DiscountShape => Returned(Discount(0))

(* C10: with base_price > 0 construction from a Batch or BatchPrice shaped *)
(* tuple returns OutOfRange whenever a supplied quantity (take or pay_for) *)
(* is zero or negative, whatever the other values are.                     *)
C10_QuantityRange ==
    /\ Constructed /\ base_price > 0
    /\ \/ BatchShape /\ (quantity1.val <= 0 \/ quantity2.val <= 0)
       \/ BatchPriceShape /\ quantity1.val <= 0
    => Failed("OutOfRange")

----------------------------------------------------------------------------
(* Deal::discounted_price, and create_special_offer of                     *)
(* src/src/database/offers.rs.                                             *)

(* Bounds of the purchase. *)
MaxUnits == 7
MaxLimit == 2

Min(a, b) == IF a <= b THEN a ELSE b

(* An arithmetic operation on u32: the value, wrapped to 32 bits, and      *)
(* whether it overflowed.  On overflow a build with overflow checks panics *)
(* and a build without them continues with the wrapped value.              *)
U32(x) == [val |-> x % (U32_MAX + 1), overflow |-> x < 0 \/ x > U32_MAX]

Priced(price, uses) == [panic |-> FALSE, price |-> price, uses |-> uses]
Panicked == [panic |-> TRUE]

(* The Deal is not bound to the values construction accepts: the type      *)
(* derives Deserialize and is an argument of the server functions.         *)
DealQuantities == (1..MaxQuantity) \cup {I32_MAX, I32_MAX + 1, U32_MAX}
Deals ==
    {Discount(p) : p \in Prices}
    \cup {Batch(t, f) : t \in DealQuantities, f \in DealQuantities}
    \cup {BatchPrice(t, p) : t \in DealQuantities, p \in Prices}

(* Arm DealImpl::Discount with uses = units whatever the limit. *)
DiscountPrice_NoLimit(deal, units, price_per_unit, limit) ==
    LET uses == units
    IN  Priced(uses * (deal.new_price - price_per_unit)
                   + price_per_unit * units, uses)

(* Arm DealImpl::Discount of discounted_price; limit is already unwrapped. *)
DiscountPrice(deal, units, price_per_unit, limit) ==
    LET uses == Min(limit, units)
    IN  Priced(uses * (deal.new_price - price_per_unit)
                   + price_per_unit * units, uses)

(* Arm DealImpl::Batch counting a started batch as a use. *)
BatchPay_RoundUp(deal, units, price_per_unit, limit, checked) ==
    LET uses == Min(limit, (units + deal.take - 1) \div deal.take)
        diff == U32(deal.take - deal.pay_for)
        free == U32(uses * diff.val)
        paid == U32(units - free.val)
    IN  IF checked /\ (diff.overflow \/ free.overflow \/ paid.overflow)
        THEN Panicked
        ELSE Priced(price_per_unit * paid.val, uses)

(* Arm DealImpl::Batch of discounted_price. *)
BatchPay(deal, units, price_per_unit, limit, checked) ==
    LET uses == Min(limit, units \div deal.take)
        diff == U32(deal.take - deal.pay_for)
        free == U32(uses * diff.val)
        paid == U32(units - free.val)
    IN  IF checked /\ (diff.overflow \/ free.overflow \/ paid.overflow)
        THEN Panicked
        ELSE Priced(price_per_unit * paid.val, uses)

(* Arm DealImpl::BatchPrice of discounted_price. *)
BatchPricePay(deal, units, price_per_unit, limit, checked) ==
    LET uses == Min(limit, units \div deal.take)
        taken == U32(deal.take * uses)
        rest == U32(units - taken.val)
    IN  IF checked /\ (taken.overflow \/ rest.overflow)
        THEN Panicked
        ELSE Priced(deal.pay * uses + price_per_unit * rest.val, uses)

(* Deal::discounted_price; units is a NonZeroU32. *)
discounted_price(deal, units, price_per_unit, limit, checked) ==
    LET lim == IF limit.some THEN limit.val ELSE U32_MAX
    IN  CASE deal.kind = "Discount" ->
                DiscountPrice(deal, units, price_per_unit, lim)
          [] deal.kind = "Batch" ->
                BatchPay(deal, units, price_per_unit, lim, checked)
          [] deal.kind = "BatchPrice" ->
                BatchPricePay(deal, units, price_per_unit, lim, checked)

(* units is a NonZeroU32. *)
Units == (1..MaxUnits) \cup {U32_MAX}

DealIdle ==
    /\ new_price = None
    /\ quantity1 = None
    /\ quantity2 = None
    /\ base_price = 0
    /\ call = "none"
    /\ pc = "idle"
    /\ result = NoValue
    /\ repr = NoValue
    /\ result2 = NoValue
    /\ discount = NoValue

PriceInit ==
    /\ offer \in [deal : Deals,
                  units : Units,
                  price_per_unit : 0..MaxPrice,
                  limit : Opt(0..MaxLimit),
                  checked : BOOLEAN]
    /\ priced = NoValue
    /\ columns = NoValue
    /\ inserted = NoValue
    /\ DealIdle /\ CategoryIdle /\ ReviewIdle /\ AmountIdle /\ RatingIdle
    /\ MoreIdle

notPriceVars == <<dealVars, categoryVars, reviewVars, amountVars, ratingVars,
                  moreVars>>

DiscountedPrice ==
    /\ priced = NoValue
    /\ priced' = discounted_price(offer.deal, offer.units,
                                  offer.price_per_unit, offer.limit,
                                  offer.checked)
    /\ UNCHANGED <<offer, columns, inserted, notPriceVars>>

DatabaseReprOfDeal ==
    /\ columns = NoValue
    /\ columns' = database_repr(offer.deal)
    /\ UNCHANGED <<offer, priced, inserted, notPriceVars>>

(* create_special_offer: database_repr().ok_or_else(|| todo!())?, then the *)
(* INSERT with limit_per_customer (a NonZeroU32) converted to i32.         *)
CreateSpecialOffer ==
    /\ inserted = NoValue
    /\ offer.limit # Some(0)
    /\ inserted' =
          LET r == database_repr(offer.deal)
          IN  IF ~r.some THEN Panicked
              ELSE IF offer.limit.some /\ ~I32FromU32(offer.limit.val).some
              THEN Err("TryFromIntError")
              ELSE Ok(r.val)
    /\ UNCHANGED <<offer, priced, columns, notPriceVars>>

PriceNext ==
    \/ DiscountedPrice
    \/ DatabaseReprOfDeal
    \/ CreateSpecialOffer

PriceSpec == PriceInit /\ [][PriceNext]_vars

----------------------------------------------------------------------------
(* Properties of discounted_price and of the storage width. *)

WasPriced == priced # NoValue
Limited(n) == IF offer.limit.some THEN Min(offer.limit.val, n) ELSE n

(* C11: for Batch{take, pay_for} with take > pay_for, every units >= 1,    *)
(* price p and optional limit, discounted_price returns                    *)
(* uses = min(limit, units div take), an absent limit being unbounded, and *)
(* final = p * (units - uses * (take - pay_for)); Batch{3, 2} with 7 units *)
(* gives uses 2 and final 5p without a limit, uses 1 and final 6p with     *)
(* limit 1.                                                                *)
C11_BatchPricing ==
    /\ WasPriced /\ offer.deal.kind = "Batch"
    /\ offer.deal.take > offer.deal.pay_for
    =>
        LET uses == Limited(offer.units \div offer.deal.take)
            p == offer.price_per_unit
        IN  /\ priced = Priced(p * (offer.units
                    - uses * (offer.deal.take - offer.deal.pay_for)), uses)
            /\ offer.deal = Batch(3, 2) /\ offer.units = 7 =>
                /\ offer.limit = None => priced = Priced(5 * p, 2)
                /\ offer.limit = Some(1) => priced = Priced(6 * p, 1)

C11_Witness ==
    /\ offer # NoValue
    /\ offer.deal = Batch(3, 2)
    /\ offer.units = 7
    /\ offer.limit = Some(1)
    /\ offer.price_per_unit = 2
    /\ priced = Priced(12, 1)

(* C12: for every units >= 1, price p and optional limit, discounted_price *)
(* returns for Discount{new_price} uses = min(limit, units) and            *)
(* final = p * units + uses * (new_price - p), and for BatchPrice{take,    *)
(* pay} uses = min(limit, units div take) and                              *)
(* final = uses * pay + p * (units - uses * take).                         *)
C12_DiscountAndBatchPricePricing ==
    WasPriced =>
        LET p == offer.price_per_unit
            d == offer.deal
        IN  /\ d.kind = "Discount" =>
                LET uses == Limited(offer.units)
                IN  priced = Priced(p * offer.units + uses * (d.new_price - p),
                                    uses)
            /\ d.kind = "BatchPrice" =>
                LET uses == Limited(offer.units \div d.take)
                IN  priced = Priced(uses * d.pay
                                        + p * (offer.units - uses * d.take),
                                    uses)

C12_Witness ==
    /\ offer # NoValue
    /\ offer.deal = Discount(1)
    /\ offer.units = 5
    /\ offer.limit = Some(2)
    /\ offer.price_per_unit = 3
    /\ priced = Priced(11, 2)

(* C14: database_repr returns None exactly when take or pay_for of the     *)
(* Deal is greater than i32::MAX; in every other case it returns the tuple *)
(* that carries the values of the Deal unchanged, and create_special_offer *)
(* never inserts a truncated or wrapped quantity.                          *)
TooWide(d) ==
    \/ d.kind = "Batch" /\ (d.take > I32_MAX \/ d.pay_for > I32_MAX)
    \/ d.kind = "BatchPrice" /\ d.take > I32_MAX
Carried(d) ==
    CASE d.kind = "Discount" -> <<Some(d.new_price), None, None>>
      [] d.kind = "Batch" -> <<None, Some(d.take), Some(d.pay_for)>>
      [] d.kind = "BatchPrice" -> <<Some(d.pay), Some(d.take), None>>

C14_CheckedStorageWidth ==
    /\ columns # NoValue =>
            /\ columns = None <=> TooWide(offer.deal)
            /\ ~TooWide(offer.deal) => columns = Some(Carried(offer.deal))
    /\ inserted # NoValue =>
            IF TooWide(offer.deal) THEN inserted = Panicked
            ELSE inserted = Ok(Carried(offer.deal))

C14_Witness ==
    /\ offer # NoValue
    /\ offer.deal = Batch(I32_MAX + 1, 1)
    /\ columns = None
    /\ inserted = Panicked

----------------------------------------------------------------------------
(* category_trees and build_tree of src/src/database/categories.rs.        *)
(*                                                                         *)
(* A name is modelled by its rank in the collation of the database; names  *)
(* are unique in the table, and so are ids.                                *)

MaxCategories == 3

(* A CategoryRepr. *)
CategoryRepr(id, parent, name) == [id |-> id, parent |-> parent, name |-> name]

(* The tables the query can read: ids 1..n, any parent column (the id of   *)
(* the row itself, of another row or of no row), names in any order.       *)
CategoryTables ==
    UNION {
        { {CategoryRepr(i, par[i], nm[i]) : i \in 1..n} :
            par \in [1..n -> Opt(1..(n + 1))],
            nm \in {f \in [1..n -> 1..n] : \A i, j \in 1..n :
                                                f[i] = f[j] => i = j} }
        : n \in 1..MaxCategories }

(* An ordering of the rows by parent alone, ids deciding the rest. *)
CategoryRepr_le_ById(a, b) ==
    IF a.parent # b.parent
    THEN ~a.parent.some \/ (b.parent.some /\ a.parent.val < b.parent.val)
    ELSE a.id <= b.id

(* ORDER BY parent NULLS FIRST, name; also the derived PartialOrd of       *)
(* CategoryRepr (fields parent, name, id).                                 *)
CategoryRepr_le(a, b) ==
    IF a.parent # b.parent
    THEN ~a.parent.some \/ (b.parent.some /\ a.parent.val < b.parent.val)
    ELSE IF a.name # b.name THEN a.name < b.name
    ELSE a.id <= b.id

(* The rows in the order the query returns them. *)
RECURSIVE fetch_all(_)
fetch_all(rows) ==
    IF rows = {} THEN <<>>
    ELSE LET first == CHOOSE r \in rows :
                        \A o \in rows : CategoryRepr_le(r, o)
         IN  <<first>> \o fetch_all(rows \ {first})

(* categories.is_sorted() of the debug assertion, by the derived order. *)
is_sorted(rows) ==
    \A i \in 1..(Len(rows) - 1) :
        LET a == rows[i]
            b == rows[i + 1]
        IN  IF a.parent # b.parent
            THEN ~a.parent.some
                    \/ (b.parent.some /\ a.parent.val < b.parent.val)
            ELSE IF a.name # b.name THEN a.name < b.name
            ELSE a.id <= b.id

(* debug_assert!(categories.is_sorted()) fails. *)
debug_assertions_failed(rows, debug_assertions) ==
    debug_assertions /\ ~is_sorted(rows)

(* The number of leading rows without parent: the next_if loop. *)
RECURSIVE LeadingRoots(_)
LeadingRoots(rows) ==
    IF rows = <<>> \/ Head(rows).parent.some THEN 0
    ELSE 1 + LeadingRoots(Tail(rows))

(* by_parent.entry(parent).or_default().push((id, name)) for each row. *)
RECURSIVE GroupByParent(_, _)
GroupByParent(rows, by_parent) ==
    IF rows = <<>> THEN by_parent
    ELSE LET r == Head(rows)
             k == r.parent.val
             bucket == IF k \in DOMAIN by_parent THEN by_parent[k] ELSE <<>>
         IN  GroupByParent(Tail(rows),
                [p \in DOMAIN by_parent \cup {k} |->
                    IF p = k THEN Append(bucket, [id |-> r.id, name |-> r.name])
                    ELSE by_parent[p]])

CategoryTree(id, name, subcategories) ==
    [id |-> id, name |-> name, subcategories |-> subcategories]

(* build_tree, with the map it changes: the tree and the map left over.    *)
(* build_all is the map(..).collect() over a list of (id, name).           *)
RECURSIVE build_tree(_, _, _)
RECURSIVE build_all(_, _)
build_tree(id, name, by_parent) ==
    LET children == IF id \in DOMAIN by_parent THEN by_parent[id] ELSE <<>>
        removed == [p \in DOMAIN by_parent \ {id} |-> by_parent[p]]
        built == build_all(children, removed)
    IN  [tree |-> CategoryTree(id, name, built.trees),
         by_parent |-> built.by_parent]
build_all(nodes, by_parent) ==
    IF nodes = <<>> THEN [trees |-> <<>>, by_parent |-> by_parent]
    ELSE LET first == build_tree(Head(nodes).id, Head(nodes).name, by_parent)
             rest == build_all(Tail(nodes), first.by_parent)
         IN  [trees |-> <<first.tree>> \o rest.trees,
              by_parent |-> rest.by_parent]

(* category_trees losing the first row with a parent. *)
category_trees_SkipRow(table, debug_assertions) ==
    LET rows == fetch_all(table)
        n == LeadingRoots(rows)
        roots == [i \in 1..n |-> [id |-> rows[i].id, name |-> rows[i].name]]
        others == SubSeq(rows, n + 2, Len(rows))
    IN  IF debug_assertions /\ ~is_sorted(rows) THEN Panicked
        ELSE IF \E i \in 1..Len(others) : ~others[i].parent.some
        THEN Panicked
        ELSE Ok(build_all(roots, GroupByParent(others, <<>>)).trees)

(* category_trees. *)
category_trees(table, debug_assertions) ==
    LET rows == fetch_all(table)
        n == LeadingRoots(rows)
        roots == [i \in 1..n |-> [id |-> rows[i].id, name |-> rows[i].name]]
        others == SubSeq(rows, n + 1, Len(rows))
    IN  IF debug_assertions /\ ~is_sorted(rows) THEN Panicked
        ELSE IF \E i \in 1..Len(others) : ~others[i].parent.some
        THEN Panicked
        ELSE Ok(build_all(roots, GroupByParent(others, <<>>)).trees)

CategoryInit ==
    /\ categories \in [rows : CategoryTables, debug_assertions : BOOLEAN]
    /\ forest = NoValue
    /\ DealIdle /\ PriceIdle /\ ReviewIdle /\ AmountIdle /\ RatingIdle
    /\ MoreIdle

CategoryTrees ==
    /\ forest = NoValue
    /\ forest' = category_trees(categories.rows, categories.debug_assertions)
    /\ UNCHANGED <<categories, dealVars, priceVars, reviewVars, amountVars,
                   ratingVars, moreVars>>

CategoryNext == CategoryTrees

CategorySpec == CategoryInit /\ [][CategoryNext]_vars

----------------------------------------------------------------------------
(* Properties of the category forest. *)

Returned_forest == forest # NoValue /\ forest # Panicked /\ forest.ok

SortedByName(trees) ==
    \A i \in 1..(Len(trees) - 1) : trees[i].name < trees[i + 1].name

RECURSIVE SortedForest(_)
SortedForest(trees) ==
    /\ SortedByName(trees)
    /\ \A i \in 1..Len(trees) : SortedForest(trees[i].subcategories)

(* The rows (1, None, B), (2, None, A), (3, Some(2), C). *)
ExampleRows ==
    {CategoryRepr(1, None, 2), CategoryRepr(2, None, 1),
     CategoryRepr(3, Some(2), 3)}
ExampleForest ==
    <<CategoryTree(2, 1, <<CategoryTree(3, 3, <<>>)>>),
      CategoryTree(1, 2, <<>>)>>

(* C15: for every table of category rows the returned roots are sorted by  *)
(* name and the subcategories of every node are sorted by name, whatever   *)
(* the order of the rows; the rows (1, None, B), (2, None, A),             *)
(* (3, Some(2), C) give root A with child C, then root B.                  *)
C15_ForestOrdering ==
    forest # NoValue =>
        /\ Returned_forest
        /\ SortedForest(forest.val)
        /\ categories.rows = ExampleRows => forest.val = ExampleForest

C15_Witness ==
    /\ categories # NoValue
    /\ categories.rows = ExampleRows
    /\ forest = Ok(ExampleForest)

(* C16: when the parent of a category row is the id of no row, the         *)
(* construction of the forest aborts with an error; the row is neither     *)
(* dropped from the output nor made a root, and no forest is returned.     *)
Dangling(rows) ==
    \E r \in rows : r.parent.some /\ \A o \in rows : o.id # r.parent.val

C16_DanglingParentAborts ==
    forest # NoValue /\ Dangling(categories.rows) => ~Returned_forest

----------------------------------------------------------------------------
(* product_reviews and product_reviews_as of                               *)
(* src/src/database/reviews.rs.                                            *)

MaxComments == 2
MaxReviews == 2
MaxVotes == 1
MaxTime == 2

(* A CommentRepr, reduced to the columns the trees are built from. *)
CommentRepr(id, parent, review, sum_votes, created_at) ==
    [id |-> id, parent |-> parent, review |-> review,
     sum_votes |-> sum_votes, created_at |-> created_at]

(* The rows of the table comments with their vote sums: ids 1..n, each a   *)
(* comment on a review or a reply to a comment.                            *)
CommentTables ==
    UNION {
        { {CommentRepr(i, par[i], rev[i], votes[i], time[i]) : i \in 1..n} :
            par \in [1..n -> Opt(1..n)],
            rev \in [1..n -> 1..MaxReviews],
            votes \in [1..n -> 0..MaxVotes],
            time \in [1..n -> 1..MaxTime] }
        : n \in 0..MaxComments }

(* ORDER BY review, parent NULLS FIRST, "sum_votes!" DESC, created_at *)
CommentRepr_le(a, b) ==
    IF a.review # b.review THEN a.review < b.review
    ELSE IF a.parent # b.parent
    THEN ~a.parent.some \/ (b.parent.some /\ a.parent.val < b.parent.val)
    ELSE IF a.sum_votes # b.sum_votes THEN a.sum_votes > b.sum_votes
    ELSE IF a.created_at # b.created_at THEN a.created_at < b.created_at
    ELSE a.id <= b.id

RECURSIVE fetch_comments(_)
fetch_comments(rows) ==
    IF rows = {} THEN <<>>
    ELSE LET first == CHOOSE r \in rows : \A o \in rows : CommentRepr_le(r, o)
         IN  <<first>> \o fetch_comments(rows \ {first})

(* From<ReviewRepr> for ProductReview: comments is Vec::new(). *)
ProductReview(id) == [id |-> id, comments |-> <<>>]

(* comments_sorted of the debug assertion. *)
RECURSIVE comments_sorted(_)
comments_sorted(comments) ==
    /\ \A i \in 1..(Len(comments) - 1) :
            \/ comments[i].sum_votes > comments[i + 1].sum_votes
            \/ /\ comments[i].sum_votes = comments[i + 1].sum_votes
               /\ comments[i].created_at <= comments[i + 1].created_at
    /\ \A i \in 1..Len(comments) : comments_sorted(comments[i].replies)

(* The body shared by product_reviews and product_reviews_as: the          *)
(* conversion of limit and offset, the queries, the conversion of the      *)
(* reviews, and then todo!() where the comment trees are to be built.      *)
(* The statements after todo!() are never executed.                        *)
reviews_with_comments(t) ==
    LET reviews == [i \in 1..MaxReviews |-> ProductReview(i)]
        comments == fetch_comments(t.comments)
    IN  IF ~t.limit_fits_i64 THEN Err("TryFromIntError")
        ELSE Panicked

product_reviews(t) == reviews_with_comments(t)
product_reviews_as(t) == reviews_with_comments(t)

ReviewInit ==
    /\ thread \in [comments : CommentTables,
                   customer : Opt(1..2),
                   limit_fits_i64 : BOOLEAN]
    /\ reviewed = NoValue
    /\ DealIdle /\ PriceIdle /\ CategoryIdle /\ AmountIdle /\ RatingIdle
    /\ MoreIdle

ProductReviews ==
    /\ reviewed = NoValue
    /\ ~thread.customer.some
    /\ reviewed' = product_reviews(thread)
    /\ UNCHANGED <<thread, dealVars, priceVars, categoryVars, amountVars,
                   ratingVars, moreVars>>

ProductReviewsAs ==
    /\ reviewed = NoValue
    /\ thread.customer.some
    /\ reviewed' = product_reviews_as(thread)
    /\ UNCHANGED <<thread, dealVars, priceVars, categoryVars, amountVars,
                   ratingVars, moreVars>>

ReviewNext ==
    \/ ProductReviews
    \/ ProductReviewsAs

ReviewSpec == ReviewInit /\ [][ReviewNext]_vars

----------------------------------------------------------------------------
(* Properties of the comment trees. *)

Called_reviews == reviewed # NoValue
Completed_reviews == reviewed # Panicked /\ reviewed.ok

(* The ids of the comments of a list of trees, with repetitions counted. *)
RECURSIVE TreeIds(_)
TreeIds(trees) ==
    IF trees = <<>> THEN <<>>
    ELSE <<Head(trees).id>> \o TreeIds(Head(trees).replies)
            \o TreeIds(Tail(trees))

(* Every reply is in the replies of its parent. *)
RECURSIVE Nested(_, _)
Nested(trees, rows) ==
    \A i \in 1..Len(trees) :
        /\ {trees[i].replies[j].id : j \in 1..Len(trees[i].replies)}
                = {c.id : c \in {r \in rows : r.parent = Some(trees[i].id)}}
        /\ Nested(trees[i].replies, rows)

(* C17: in the comment trees returned for a review, the siblings at every  *)
(* level (the roots and every replies list) are ordered by descending vote *)
(* sum and, among equal vote sums, by ascending creation time, in the      *)
(* anonymous and in the authenticated view alike.                          *)
C17_CommentOrdering ==
    Called_reviews /\ thread.limit_fits_i64 =>
        /\ Completed_reviews
        /\ \A i \in 1..Len(reviewed.val) :
                comments_sorted(reviewed.val[i].comments)

(* C18: a call of product_reviews or product_reviews_as completes with a   *)
(* result in which every fetched review carries its comment trees: the     *)
(* roots are exactly the fetched comments of that review without parent,   *)
(* every reply is nested under its parent, and every fetched comment is in *)
(* exactly one tree.                                                       *)
C18_CommentTreeAssembly ==
    Called_reviews /\ thread.limit_fits_i64 =>
        /\ Completed_reviews
        /\ \A i \in 1..Len(reviewed.val) :
            LET r == reviewed.val[i]
                mine == {c \in thread.comments : c.review = r.id}
            IN  /\ {r.comments[j].id : j \in 1..Len(r.comments)}
                        = {c.id : c \in {m \in mine : ~m.parent.some}}
                /\ Nested(r.comments, thread.comments)
        /\ \A c \in thread.comments :
                Cardinality({<<i, k>> \in
                    {<<i, k>> : i \in 1..Len(reviewed.val), k \in 1..MaxComments} :
                        /\ k <= Len(TreeIds(reviewed.val[i].comments))
                        /\ TreeIds(reviewed.val[i].comments)[k] = c.id}) = 1

----------------------------------------------------------------------------
(* Amount of src/src/database/types.rs.                                    *)
(*                                                                         *)
(* The quantity can have a fractional part, so here a Decimal is modelled  *)
(* as rust_decimal stores it: mantissa / 10^scale.                         *)

MaxMantissa == 11
MaxScale == 1
MaxCount == 3

Decimal(m, sc) == [mantissa |-> m, scale |-> sc]
Decimals ==
    {Decimal(m, sc) : m \in (0 - MaxMantissa)..MaxMantissa, sc \in 0..MaxScale}

RECURSIVE Pow10(_)
Pow10(n) == IF n = 0 THEN 1 ELSE 10 * Pow10(n - 1)

(* quantity < Decimal::ZERO *)
IsNegative(q) == q.mantissa < 0
(* Decimal::is_integer *)
is_integer(q) == q.mantissa % Pow10(q.scale) = 0

AmountOf(quantity, unit) == [quantity |-> quantity, unit |-> unit]

(* Amount::new *)
Amount_new(quantity, unit) ==
    IF IsNegative(quantity) THEN None
    ELSE IF unit.some THEN Some(AmountOf(quantity, unit))
    ELSE IF is_integer(quantity) THEN Some(AmountOf(quantity, None))
    ELSE None

(* Amount::discrete; quantity is a u32. *)
Amount_discrete(quantity) == AmountOf(Decimal(quantity, 0), None)

(* Amount::with_unit *)
Amount_with_unit(quantity, unit) == AmountOf(quantity, Some(unit))

AmountInit ==
    /\ amount_in \in [quantity : Decimals,
                      unit : Opt({"kg"}),
                      discrete : 0..MaxCount]
    /\ amount = NoValue
    /\ DealIdle /\ PriceIdle /\ CategoryIdle /\ ReviewIdle /\ RatingIdle
    /\ MoreIdle

AmountNew ==
    /\ amount = NoValue
    /\ amount' = [by |-> "new",
                  value |-> Amount_new(amount_in.quantity, amount_in.unit)]
    /\ UNCHANGED <<amount_in, dealVars, priceVars, categoryVars, reviewVars,
                   ratingVars, moreVars>>

AmountDiscrete ==
    /\ amount = NoValue
    /\ amount' = [by |-> "discrete",
                  value |-> Some(Amount_discrete(amount_in.discrete))]
    /\ UNCHANGED <<amount_in, dealVars, priceVars, categoryVars, reviewVars,
                   ratingVars, moreVars>>

AmountWithUnit ==
    /\ amount = NoValue
    /\ amount_in.unit.some
    /\ amount' = [by |-> "with_unit",
                  value |-> Some(Amount_with_unit(amount_in.quantity,
                                                  amount_in.unit.val))]
    /\ UNCHANGED <<amount_in, dealVars, priceVars, categoryVars, reviewVars,
                   ratingVars, moreVars>>

AmountNext ==
    \/ AmountNew
    \/ AmountDiscrete
    \/ AmountWithUnit

AmountSpec == AmountInit /\ [][AmountNext]_vars

(* C19: every Amount obtained through the public constructors              *)
(* (Amount::new, Amount::discrete, Amount::with_unit) has a non-negative   *)
(* quantity, and an integer quantity whenever its unit is absent.          *)
C19_AmountInvariant ==
    amount # NoValue /\ amount.value.some =>
        /\ amount.value.val.quantity.mantissa >= 0
        /\ ~amount.value.val.unit.some =>
                is_integer(amount.value.val.quantity)

----------------------------------------------------------------------------
(* AverageRating of src/src/database/types.rs.                             *)
(*                                                                         *)
(* An f64 is modelled as NaN or an integer value.                          *)

MaxMean == 6

F64(v) == [nan |-> FALSE, v |-> v]
NaN == [nan |-> TRUE, v |-> 0]
Means == {NaN} \cup {F64(v) : v \in (0 - MaxNegative)..MaxMean}

(* (1. ..=5.).contains(&rating) *)
RatingInRange(rating) == ~rating.nan /\ 1 <= rating.v /\ rating.v <= 5

AverageRatingOf(rating, count) == [rating |-> rating, count |-> count]

(* AverageRating::new with the range 1 <= rating < 5. *)
AverageRating_new_Exclusive(rating, count) ==
    IF count = 0 THEN Some(AverageRatingOf(F64(0), 0))
    ELSE IF ~rating.nan /\ 1 <= rating.v /\ rating.v < 5
    THEN Some(AverageRatingOf(rating, count))
    ELSE None

(* AverageRating::new *)
AverageRating_new(rating, count) ==
    IF count = 0 THEN Some(AverageRatingOf(F64(0), 0))
    ELSE IF RatingInRange(rating) THEN Some(AverageRatingOf(rating, count))
    ELSE None

(* AverageRating::rating *)
AverageRating_rating(self) ==
    IF self.count > 0 THEN Some(self.rating) ELSE None

(* AverageRating::count *)
AverageRating_count(self) == self.count

(* The value a getter handed back to the caller. *)
Got(x) == [got |-> x]

RatingInit ==
    /\ rating_in \in [rating : Means, count : 0..MaxCount]
    /\ average = NoValue
    /\ shown = NoValue
    /\ DealIdle /\ PriceIdle /\ CategoryIdle /\ ReviewIdle /\ AmountIdle
    /\ MoreIdle

AverageRatingNew ==
    /\ average = NoValue
    /\ average' = [value |-> AverageRating_new(rating_in.rating,
                                               rating_in.count),
                   rating |-> NoValue,
                   count |-> NoValue]
    /\ UNCHANGED <<rating_in, dealVars, priceVars, categoryVars, reviewVars,
                   amountVars, shown, moreVars>>

GetRating ==
    /\ average # NoValue
    /\ average.value.some
    /\ average.rating = NoValue
    /\ average' = [average EXCEPT
                        !.rating = Got(AverageRating_rating(average.value.val))]
    /\ UNCHANGED <<rating_in, dealVars, priceVars, categoryVars, reviewVars,
                   amountVars, shown, moreVars>>

GetCount ==
    /\ average # NoValue
    /\ average.value.some
    /\ average.count = NoValue
    /\ average' = [average EXCEPT
                        !.count = Got(AverageRating_count(average.value.val))]
    /\ UNCHANGED <<rating_in, dealVars, priceVars, categoryVars, reviewVars,
                   amountVars, shown, moreVars>>

(* format!("{rating:.1}"): the value with one digit after the point. *)
OneDecimal(rating) ==
    IF rating.nan THEN [text |-> "NaN"]
    ELSE [units |-> rating.v, tenths |-> 0]

(* Display for AverageRating *)
AverageRating_fmt(self) ==
    IF self.count > 0 THEN [text |-> "No ratings"]
    ELSE OneDecimal(self.rating)

Display ==
    /\ average # NoValue
    /\ average.value.some
    /\ shown = NoValue
    /\ shown' = AverageRating_fmt(average.value.val)
    /\ UNCHANGED <<rating_in, average, dealVars, priceVars, categoryVars,
                   reviewVars, amountVars, moreVars>>

RatingNext ==
    \/ AverageRatingNew
    \/ GetRating
    \/ GetCount
    \/ Display

RatingSpec == RatingInit /\ [][RatingNext]_vars

(* C20: AverageRating::new(mean, 0) succeeds for every mean and gives the  *)
(* no-ratings state (rating() = None, count() = 0), the mean ignored;      *)
(* AverageRating::new(mean, count) with count > 0 succeeds if and only if  *)
(* 1 <= mean <= 5, and then rating() = Some(mean) and count() = count.     *)
C20_NoRatingsState ==
    average # NoValue =>
        IF rating_in.count = 0
        THEN /\ average.value.some
             /\ average.rating # NoValue => average.rating = Got(None)
             /\ average.count # NoValue => average.count = Got(0)
        ELSE /\ average.value.some
                    <=> (~rating_in.rating.nan /\ 1 <= rating_in.rating.v
                            /\ rating_in.rating.v <= 5)
             /\ average.value.some =>
                    /\ average.rating # NoValue =>
                            average.rating = Got(Some(rating_in.rating))
                    /\ average.count # NoValue =>
                            average.count = Got(rating_in.count)

C20_Witness ==
    /\ average # NoValue
    /\ rating_in.count = 0
    /\ rating_in.rating = F64(MaxMean)
    /\ average.rating = Got(None)
    /\ average.count = Got(0)

----------------------------------------------------------------------------
(* set_vote_review and set_vote_comment of src/src/database/reviews.rs,    *)
(* and the vote sums that the queries of product_reviews read.             *)

MaxVoters == 2
MaxCalls == 3

Voters == 1..MaxVoters
Grades == {"Like", "Dislike"}

(* A row of review_votes or comment_votes; target is the review or the     *)
(* comment. *)
VoteRow(customer, target, grade) ==
    [customer |-> customer, target |-> target, grade |-> grade]

SameKey(r, customer, target) == r.customer = customer /\ r.target = target

(* An INSERT without the ON CONFLICT clause, on a table without the key. *)
upsert_vote_PlainInsert(table, customer, target, grade) ==
    [table |-> table \cup {VoteRow(customer, target, grade)},
     rows_affected |-> 1]

(* INSERT INTO .. VALUES ($1, $2, $3)                                      *)
(* ON CONFLICT (customer, target) DO UPDATE SET grade = EXCLUDED.grade     *)
upsert_vote(table, customer, target, grade) ==
    [table |->
        IF \E r \in table : SameKey(r, customer, target)
        THEN {IF SameKey(r, customer, target)
              THEN [r EXCEPT !.grade = grade] ELSE r : r \in table}
        ELSE table \cup {VoteRow(customer, target, grade)},
     rows_affected |-> 1]

(* DELETE FROM .. WHERE customer = $1 AND target = $2 *)
delete_vote(table, customer, target) ==
    LET kept == {r \in table : ~SameKey(r, customer, target)}
    IN  [table |-> kept,
         rows_affected |-> Cardinality(table) - Cardinality(kept)]

(* QueryResultExt::expect_one *)
expect_one(n) == IF n = 1 THEN Ok("unit") ELSE Panicked

(* QueryResultExt::by_unique_key(|| todo!()): on_zero itself panics. *)
by_unique_key_todo(n) == IF n = 1 THEN Ok("unit") ELSE Panicked

(* The body of set_vote_review and of set_vote_comment: the table after    *)
(* the statement and the value the function returns.                       *)
set_vote(table, customer, target, vote) ==
    IF vote.some
    THEN LET q == upsert_vote(table, customer, target, vote.val)
         IN  [table |-> q.table, result |-> expect_one(q.rows_affected)]
    ELSE LET q == delete_vote(table, customer, target)
         IN  [table |-> q.table, result |-> by_unique_key_todo(q.rows_affected)]

(* CASE grade WHEN 'like' THEN 1 WHEN 'dislike' THEN -1 END *)
GradeValue(grade) == IF grade = "Like" THEN 1 ELSE 0 - 1

(* SUM(..) over the joined rows: NULL when no vote is joined. *)
RECURSIVE SumGrades(_)
SumGrades(joined) ==
    IF joined = {} THEN None
    ELSE LET r == CHOOSE x \in joined : TRUE
             rest == SumGrades(joined \ {r})
         IN  Some(GradeValue(r.grade) + (IF rest.some THEN rest.val ELSE 0))

(* COALESCE(x, 0) *)
Coalesce(x, default) == IF x.some THEN x.val ELSE default

(* COALESCE(SUM(CASE ..), 0) AS "sum_votes!" with the votes LEFT JOINed ON *)
(* the id of the review or comment, GROUP BY that id.                      *)
sum_votes(table, target) ==
    Coalesce(SumGrades({r \in table : r.target = target}), 0)

VoteInit ==
    /\ review_votes = {}
    /\ comment_votes = {}
    /\ vote_result = NoValue
    /\ calls = 0
    /\ fetched = NoValue
    /\ DealIdle /\ PriceIdle /\ CategoryIdle /\ ReviewIdle /\ AmountIdle
    /\ RatingIdle /\ WalkIdle /\ ProcIdle /\ OrderIdle

notVoteVars == <<dealVars, priceVars, categoryVars, reviewVars, amountVars,
                 ratingVars, walkVars, procVars, orderVars>>

SetVoteReview ==
    /\ calls < MaxCalls
    /\ \E customer \in Voters, review \in 1..MaxReviews, vote \in Opt(Grades) :
        LET r == set_vote(review_votes, customer, review, vote)
        IN  /\ review_votes' = r.table
            /\ vote_result' = r.result
    /\ calls' = calls + 1
    /\ fetched' = NoValue
    /\ UNCHANGED <<comment_votes, notVoteVars>>

SetVoteComment ==
    /\ calls < MaxCalls
    /\ \E customer \in Voters, comment \in 1..MaxComments, vote \in Opt(Grades) :
        LET r == set_vote(comment_votes, customer, comment, vote)
        IN  /\ comment_votes' = r.table
            /\ vote_result' = r.result
    /\ calls' = calls + 1
    /\ fetched' = NoValue
    /\ UNCHANGED <<review_votes, notVoteVars>>

(* The two queries of product_reviews, in one REPEATABLE READ transaction: *)
(* the rows fetched carry the vote sums.  The function then stops at       *)
(* todo!(), so the rows live only as long as the call.                     *)
FetchVoteSums ==
    /\ fetched = NoValue
    /\ fetched' = [reviews |-> [r \in 1..MaxReviews |->
                                    sum_votes(review_votes, r)],
                   comments |-> [c \in 1..MaxComments |->
                                    sum_votes(comment_votes, c)],
                   outcome |-> Panicked]
    /\ UNCHANGED <<review_votes, comment_votes, vote_result, calls,
                   notVoteVars>>

VoteNext ==
    \/ SetVoteReview
    \/ SetVoteComment
    \/ FetchVoteSums

VoteSpec == VoteInit /\ [][VoteNext]_vars

----------------------------------------------------------------------------
(* Properties of the votes. *)

VotesOf(table, customer, target) ==
    {r \in table : r.customer = customer /\ r.target = target}
Count(table, target, grade) ==
    Cardinality({c \in Voters :
        \E r \in table : r.customer = c /\ r.target = target
                            /\ r.grade = grade})
Tally(table, target) ==
    Count(table, target, "Like") - Count(table, target, "Dislike")

(* C21: after any sequence of set_vote_review calls each (customer,        *)
(* review) pair holds at most one vote, and the sum_votes read for a       *)
(* review is the number of customers whose current vote is Like minus the  *)
(* number whose current vote is Dislike, 0 when there are no votes; the    *)
(* same holds for set_vote_comment and comments.                           *)
C21_VoteTally ==
    /\ \A c \in Voters, t \in 1..MaxReviews :
            Cardinality(VotesOf(review_votes, c, t)) <= 1
    /\ \A c \in Voters, t \in 1..MaxComments :
            Cardinality(VotesOf(comment_votes, c, t)) <= 1
    /\ fetched # NoValue =>
            /\ \A t \in 1..MaxReviews :
                    fetched.reviews[t] = Tally(review_votes, t)
            /\ \A t \in 1..MaxComments :
                    fetched.comments[t] = Tally(comment_votes, t)

(* Customer 1 changed a Like into a Dislike, customer 2 dislikes too. *)
C21_Witness ==
    /\ fetched # NoValue
    /\ calls = MaxCalls
    /\ review_votes = {VoteRow(1, 1, "Dislike"), VoteRow(2, 1, "Dislike")}
    /\ fetched.reviews[1] = 0 - 2
    /\ fetched.reviews[2] = 0

----------------------------------------------------------------------------
(* Further properties of Deal construction. *)

(* C22: construction returns NoDiscount only for an offer that does not    *)
(* make the purchase cheaper than the base price; a tuple                  *)
(* (Some(pay), Some(take), None) with positive values and                  *)
(* pay < take * base_price is never rejected with NoDiscount.              *)
C22_NoDiscountMeansNoSaving ==
    Constructed /\ base_price > 0 =>
        /\ DiscountShape /\ new_price.val >= 0 /\ new_price.val < base_price
                => ~Failed("NoDiscount")
        /\ BatchShape /\ quantity2.val > 0 /\ quantity2.val < quantity1.val
                => ~Failed("NoDiscount")
        /\ BatchPriceShape /\ new_price.val > 0 /\ quantity1.val > 0
            /\ new_price.val < quantity1.val * base_price
                => ~Failed("NoDiscount")

(* C24: every Deal returned by construction has a non-negative price       *)
(* field: new_price >= 0 for Discount and pay >= 0 for BatchPrice,         *)
(* whichever tuple shape it was built from.                                *)
C24_NonNegativePrice ==
    Constructed /\ HasDeal(call, result) =>
        /\ ReturnedKind("Discount") => DealOf(call, result).new_price >= 0
        /\ ReturnedKind("BatchPrice") => DealOf(call, result).pay >= 0

----------------------------------------------------------------------------
(* A Deal constructed against a base price and then used to price a        *)
(* purchase at that price: try_from_repr / from_repr followed by           *)
(* discounted_price.                                                       *)

(* The quantity columns are i32: the small values and i32::MAX. *)
PurchaseQuantities == Quantities \cup {I32_MAX}
(* limit is an Option<u32>. *)
PurchaseLimits == Opt((0..MaxLimit) \cup {U32_MAX})

PurchaseInit ==
    /\ new_price \in Opt(Prices)
    /\ quantity1 \in Opt(PurchaseQuantities)
    /\ quantity2 \in Opt(PurchaseQuantities)
    /\ base_price \in Prices
    /\ call = "none"
    /\ pc = "input"
    /\ result = NoValue
    /\ repr = NoValue
    /\ result2 = NoValue
    /\ discount = NoValue
    /\ PriceIdle /\ CategoryIdle /\ ReviewIdle /\ AmountIdle /\ RatingIdle
    /\ MoreIdle

Purchase ==
    /\ pc = "constructed"
    /\ HasDeal(call, result)
    /\ priced = NoValue
    /\ \E units \in Units, limit \in PurchaseLimits, checked \in BOOLEAN :
        /\ offer' = [deal |-> DealOf(call, result),
                     units |-> units,
                     price_per_unit |-> base_price,
                     limit |-> limit,
                     checked |-> checked]
        /\ priced' = discounted_price(DealOf(call, result), units, base_price,
                                      limit, checked)
    /\ UNCHANGED <<dealVars, columns, inserted, categoryVars, reviewVars,
                   amountVars, ratingVars, moreVars>>

PurchaseNext ==
    \/ TryFromRepr
    \/ FromRepr
    \/ Purchase

PurchaseSpec == PurchaseInit /\ [][PurchaseNext]_vars

(* C23: for every Deal constructed against base price b, every units >= 1  *)
(* and every limit, discounted_price(units, b, limit) returns a final      *)
(* price <= b * units, and the final price is strictly lower than          *)
(* b * units exactly when uses > 0.                                        *)
C23_NeverRaisesPrice ==
    WasPriced =>
        /\ priced # Panicked
        /\ priced.price <= base_price * offer.units
        /\ priced.price < base_price * offer.units <=> priced.uses > 0

C23_Witness ==
    /\ WasPriced
    /\ offer.deal = BatchPrice(2, 1)
    /\ base_price = 3
    /\ offer.units = 5
    /\ offer.limit = None
    /\ priced = Priced(5, 2)

(* C25: for every Deal returned by construction, every units in            *)
(* 1..2^32 - 1 and every limit (absent or any u32), the unsigned 32-bit    *)
(* computations of discounted_price (take - pay_for,                       *)
(* uses * (take - pay_for), take * uses, and their subtraction from units) *)
(* never overflow or underflow, and uses * take <= units for Batch and     *)
(* BatchPrice.                                                             *)
InU32(x) == 0 <= x /\ x <= U32_MAX

C25_NoWrapAround ==
    WasPriced =>
        LET d == offer.deal
        IN  /\ priced # Panicked
            /\ d.kind = "Batch" =>
                /\ InU32(d.take - d.pay_for)
                /\ InU32(priced.uses * (d.take - d.pay_for))
                /\ InU32(offer.units - priced.uses * (d.take - d.pay_for))
                /\ priced.uses * d.take <= offer.units
                /\ priced.price = base_price
                    * (offer.units - priced.uses * (d.take - d.pay_for))
            /\ d.kind = "BatchPrice" =>
                /\ InU32(d.take * priced.uses)
                /\ InU32(offer.units - d.take * priced.uses)
                /\ priced.uses * d.take <= offer.units
                /\ priced.price = d.pay * priced.uses
                    + base_price * (offer.units - d.take * priced.uses)

C25_Witness ==
    /\ WasPriced
    /\ offer.deal = Batch(I32_MAX, 1)
    /\ offer.units = U32_MAX
    /\ offer.limit = Some(U32_MAX)
    /\ offer.checked
    /\ base_price = 1
    /\ priced = Priced(3, 2)

----------------------------------------------------------------------------
(* Further properties of the category forest. *)

(* The rows form a forest: the parent of every row is a row, and following *)
(* the parents from any row ends at a row without parent.                  *)
RECURSIVE ReachesRoot(_, _, _)
ReachesRoot(r, rows, fuel) ==
    IF ~r.parent.some THEN TRUE
    ELSE IF fuel = 0 THEN FALSE
    ELSE \E o \in rows : /\ o.id = r.parent.val
                         /\ ReachesRoot(o, rows, fuel - 1)

ValidForest(rows) ==
    \A r \in rows : ReachesRoot(r, rows, Cardinality(rows))

(* The nodes of a list of trees, and their ids in visiting order. *)
RECURSIVE Nodes(_)
Nodes(trees) ==
    UNION {{trees[i]} \cup Nodes(trees[i].subcategories) : i \in 1..Len(trees)}

RECURSIVE NodeIds(_)
NodeIds(trees) ==
    IF trees = <<>> THEN <<>>
    ELSE <<Head(trees).id>> \o NodeIds(Head(trees).subcategories)
            \o NodeIds(Tail(trees))

Occurrences(seq, x) == Cardinality({i \in 1..Len(seq) : seq[i] = x})

(* The (id, name) pairs of a list of trees, in order. *)
Listed(trees) == [i \in 1..Len(trees) |-> <<trees[i].id, trees[i].name>>]

(* The (id, name) pairs of the rows of the input list with a given parent, *)
(* in input order.                                                         *)
RECURSIVE RowsWithParent(_, _)
RowsWithParent(list, parent) ==
    IF list = <<>> THEN <<>>
    ELSE (IF Head(list).parent = parent
          THEN <<<<Head(list).id, Head(list).name>>>> ELSE <<>>)
            \o RowsWithParent(Tail(list), parent)

(* C26: for an input that is a valid forest with all root rows first, the  *)
(* output contains every input row exactly once, the roots of the output   *)
(* are exactly the rows without parent, node y is in the subcategories of  *)
(* node x if and only if y's parent is x's id, and siblings keep their     *)
(* relative input order.                                                   *)
C26_HierarchyPreserved ==
    forest # NoValue /\ ValidForest(categories.rows) =>
        /\ Returned_forest
        /\ LET list == fetch_all(categories.rows)
           IN  /\ \A r \in categories.rows :
                        Occurrences(NodeIds(forest.val), r.id) = 1
               /\ Len(NodeIds(forest.val)) = Cardinality(categories.rows)
               /\ Listed(forest.val) = RowsWithParent(list, None)
               /\ \A x \in Nodes(forest.val) :
                        Listed(x.subcategories)
                            = RowsWithParent(list, Some(x.id))

(* Root 1 with the children 3 (name B) and 2 (name C). *)
C26_Witness ==
    /\ categories # NoValue
    /\ categories.rows = {CategoryRepr(1, None, 1), CategoryRepr(2, Some(1), 3),
                          CategoryRepr(3, Some(1), 2)}
    /\ forest = Ok(<<CategoryTree(1, 1, <<CategoryTree(3, 2, <<>>),
                                          CategoryTree(2, 3, <<>>)>>)>>)

----------------------------------------------------------------------------
(* category_trees step by step: one step per entry of build_tree and one   *)
(* per return, the recursion kept on an explicit stack.                    *)

(* A call of build_tree in progress: the children still to be visited and  *)
(* the subtrees collected so far.  The bottom frame is category_trees      *)
(* itself, mapping build_tree over the roots.                              *)
Frame(id, name, pending, built) ==
    [id |-> id, name |-> name, pending |-> pending, built |-> built]

Top == stack[Len(stack)]
Below == SubSeq(stack, 1, Len(stack) - 1)

(* by_parent.remove(&id).unwrap_or_default() *)
RemovedBucket(id) == IF id \in DOMAIN buckets THEN buckets[id] ELSE <<>>
(* The map with the bucket left in place. *)
WithoutBucket_Kept(id) == buckets

WithoutBucket(id) == [p \in DOMAIN buckets \ {id} |-> buckets[p]]

WalkInit ==
    /\ categories = NoValue
    /\ forest = NoValue
    /\ stack = <<>>
    /\ buckets = <<>>
    /\ entered = <<>>
    /\ walk_pc = "start"
    /\ DealIdle /\ PriceIdle /\ ReviewIdle /\ AmountIdle /\ RatingIdle
    /\ VoteIdle /\ ProcIdle /\ OrderIdle

notWalkVars == <<dealVars, priceVars, reviewVars, amountVars, ratingVars,
                 voteVars, procVars, orderVars>>

(* The query over the table as it is at the call, the debug assertion,     *)
(* the loop over the roots and the grouping of the other rows.             *)
FetchAndGroup ==
    /\ walk_pc = "start"
    /\ \E table \in CategoryTables, debug_assertions \in BOOLEAN :
        LET rows == fetch_all(table)
            n == LeadingRoots(rows)
            roots == [i \in 1..n |-> [id |-> rows[i].id, name |-> rows[i].name]]
            others == SubSeq(rows, n + 1, Len(rows))
        IN  /\ categories' = [rows |-> table,
                              debug_assertions |-> debug_assertions]
            /\ IF \/ debug_assertions_failed(rows, debug_assertions)
                  \/ \E i \in 1..Len(others) : ~others[i].parent.some
               THEN /\ forest' = Panicked
                    /\ walk_pc' = "done"
                    /\ UNCHANGED <<stack, buckets, entered>>
               ELSE /\ stack' = <<Frame(0, 0, roots, <<>>)>>
                    /\ buckets' = GroupByParent(others, <<>>)
                    /\ entered' = [id \in {r.id : r \in table} |-> 0]
                    /\ walk_pc' = "build"
                    /\ UNCHANGED forest
    /\ UNCHANGED notWalkVars

(* build_tree is entered for the next child: its bucket leaves the map. *)
EnterBuildTree ==
    /\ walk_pc = "build"
    /\ Top.pending # <<>>
    /\ LET child == Head(Top.pending)
       IN  /\ stack' = Append(
                    Append(Below, [Top EXCEPT !.pending = Tail(Top.pending)]),
                    Frame(child.id, child.name, RemovedBucket(child.id), <<>>))
           /\ buckets' = WithoutBucket(child.id)
           /\ entered' = [entered EXCEPT ![child.id] = entered[child.id] + 1]
    /\ UNCHANGED <<categories, forest, walk_pc, notWalkVars>>

(* build_tree returns its CategoryTree to the collect() of its caller. *)
ReturnBuildTree ==
    /\ walk_pc = "build"
    /\ Top.pending = <<>>
    /\ Len(stack) > 1
    /\ LET caller == stack[Len(stack) - 1]
           tree == CategoryTree(Top.id, Top.name, Top.built)
       IN  stack' = Append(SubSeq(stack, 1, Len(stack) - 2),
                           [caller EXCEPT !.built = Append(caller.built, tree)])
    /\ UNCHANGED <<categories, forest, buckets, entered, walk_pc, notWalkVars>>

(* Ok(roots.into_iter().map(..).collect()) *)
ReturnForest ==
    /\ walk_pc = "build"
    /\ Top.pending = <<>>
    /\ Len(stack) = 1
    /\ forest' = Ok(Top.built)
    /\ walk_pc' = "done"
    /\ UNCHANGED <<categories, stack, buckets, entered, notWalkVars>>

WalkNext ==
    \/ FetchAndGroup
    \/ EnterBuildTree
    \/ ReturnBuildTree
    \/ ReturnForest

WalkSpec == WalkInit /\ [][WalkNext]_vars

(* C27: forest reconstruction terminates on every finite input list with   *)
(* roots first, lists whose non-root rows form a cycle or reference        *)
(* themselves included; each parent bucket is removed before its children  *)
(* are visited, and build_tree is entered at most once per input row.      *)
EnteredAtMostOnce ==
    walk_pc = "build" =>
        /\ \A id \in DOMAIN entered : entered[id] <= 1
        /\ \A i \in 1..Len(stack) : stack[i].id \notin DOMAIN buckets

(* The steps the call still has to take, at most: two for every row not    *)
(* yet entered (its entry and its return) and one for every frame.         *)
StepsLeft ==
    CASE walk_pc = "start" -> 2 * MaxCategories + 2
      [] walk_pc = "build" ->
            2 * Cardinality({id \in DOMAIN entered : entered[id] = 0})
                + Len(stack)
      [] walk_pc = "done" -> 0

(* Until the call has returned it can take a step, and it ends with a      *)
(* forest.                                                                 *)
Running ==
    /\ walk_pc # "done" => ENABLED WalkNext
    /\ walk_pc = "done" => Returned_forest

C27_Termination ==
    /\ [](EnteredAtMostOnce /\ Running)
    /\ [][StepsLeft' < StepsLeft]_vars

(* Rows 2 and 3 are each other's parent, row 1 is a root. *)
C27_Witness ==
    /\ walk_pc = "done"
    /\ categories.rows = {CategoryRepr(1, None, 1), CategoryRepr(2, Some(3), 2),
                          CategoryRepr(3, Some(2), 3)}
    /\ forest = Ok(<<CategoryTree(1, 1, <<>>)>>)
    /\ entered = (1 :> 1) @@ (2 :> 0) @@ (3 :> 0)

----------------------------------------------------------------------------
(* Further properties of AverageRating. *)

(* C28: formatting an AverageRating prints the mean with a single decimal  *)
(* when count > 0, and prints the 'No ratings' text only in the no-ratings *)
(* state (count = 0).                                                      *)
C28_DisplayRating ==
    shown # NoValue =>
        /\ average.value.val.count > 0 =>
                shown = [units |-> rating_in.rating.v, tenths |-> 0]
        /\ shown = [text |-> "No ratings"] => average.value.val.count = 0

----------------------------------------------------------------------------
(* QueryResultExt::procedure of src/src/database.rs and checkout of        *)
(* src/src/database/cart.rs.                                               *)

MaxAffected == 2
MaxOffers == 2

(* expected_offers: the lists of up to MaxOffers ids of special offers. *)
OfferLists == UNION {[1..n -> 1..MaxOffers] : n \in 0..MaxOffers}

(* What execute() returns: a QueryResult with its rows_affected(), or an   *)
(* error the procedure raised.  PostgreSQL reports 0 rows for a CALL.      *)
Executed == {Ok(n) : n \in 0..MaxAffected} \cup {Err("sqlx")}

(* QueryResultExt::procedure: assert!(self.rows_affected() != 0, ..) *)
procedure(n) == IF n # 0 THEN [unit |-> TRUE] ELSE Panicked

(* checkout: execute(..).await.map(QueryResultExt::procedure).map_err(..) *)
checkout(executed) ==
    IF ~executed.ok THEN Err(executed.err)
    ELSE IF procedure(executed.val) = Panicked THEN Panicked
    ELSE Ok("unit")

ProcInit ==
    /\ checkout_in \in [customer : Voters,
                        expected_offers : Opt(OfferLists),
                        executed : Executed]
    /\ checked_out = NoValue
    /\ DealIdle /\ PriceIdle /\ CategoryIdle /\ ReviewIdle /\ AmountIdle
    /\ RatingIdle /\ VoteIdle /\ WalkIdle /\ OrderIdle

Checkout ==
    /\ checked_out = NoValue
    /\ checked_out' = checkout(checkout_in.executed)
    /\ UNCHANGED <<checkout_in, dealVars, priceVars, categoryVars, reviewVars,
                   amountVars, ratingVars, voteVars, walkVars, orderVars>>

ProcNext == Checkout

ProcSpec == ProcInit /\ [][ProcNext]_vars

(* C29: QueryResultExt::procedure accepts the result of a stored-procedure *)
(* call, which affects 0 rows, and panics if and only if the result        *)
(* reports that any rows were affected; checkout therefore returns Ok      *)
(* after a successful CALL checkout.                                       *)
C29_ProcedureResult ==
    checked_out # NoValue /\ checkout_in.executed.ok =>
        /\ checked_out = Panicked <=> checkout_in.executed.val > 0
        /\ checkout_in.executed.val = 0 => checked_out = Ok("unit")

----------------------------------------------------------------------------
(* orders of src/src/database/products/info.rs.                            *)

MaxPurchases == 3
MaxItems == 2

(* A PurchaseRepr, reduced to its time and the product bought. *)
PurchaseRepr(time, item) == [time |-> time, item |-> item]

(* From<PurchaseRepr> for Purchase: the time is dropped. *)
PurchaseOf(row) == [item |-> row.item]

Order(time, bought) == [time |-> time, purchases |-> bought]

(* ORDER BY time DESC: the lists the query can return. *)
SortedByTimeDesc(list) ==
    \A i \in 1..(Len(list) - 1) : list[i].time >= list[i + 1].time

PurchaseLists ==
    UNION {{list \in [1..n -> {PurchaseRepr(t, i) : t \in 1..MaxTime,
                                                    i \in 1..MaxItems}] :
                SortedByTimeDesc(list)}
           : n \in 0..MaxPurchases}

(* The closure of the fold opening a new Order for every row. *)
fold_step_AlwaysNew(acc, time, purchase) ==
    Append(acc, Order(time, <<purchase>>))

(* The closure of the fold. *)
fold_step(acc, time, purchase) ==
    IF acc # <<>> /\ time = acc[Len(acc)].time
    THEN [acc EXCEPT ![Len(acc)].purchases = Append(@, purchase)]
    ELSE Append(acc, Order(time, <<purchase>>))

(* .map(|purchase| (purchase.time, Purchase::from(purchase))).fold(..) *)
RECURSIVE fold_orders(_, _)
fold_orders(acc, list) ==
    IF list = <<>> THEN acc
    ELSE fold_orders(fold_step(acc, Head(list).time, PurchaseOf(Head(list))),
                     Tail(list))

(* orders.is_sorted_by_key(|order| Reverse(order.time)) *)
is_sorted_by_reverse_time(os) ==
    \A i \in 1..(Len(os) - 1) : os[i].time >= os[i + 1].time

(* orders: the conversion of limit and offset, the query, the fold and the *)
(* debug assertion.                                                        *)
orders(list, limit_fits_i64, debug_assertions) ==
    IF ~limit_fits_i64 THEN Err("TryFromIntError")
    ELSE LET os == fold_orders(<<>>, list)
         IN  IF debug_assertions /\ ~is_sorted_by_reverse_time(os)
             THEN Panicked
             ELSE Ok(os)

OrderInit ==
    /\ purchases \in [rows : PurchaseLists,
                      limit_fits_i64 : BOOLEAN,
                      debug_assertions : BOOLEAN]
    /\ grouped = NoValue
    /\ DealIdle /\ PriceIdle /\ CategoryIdle /\ ReviewIdle /\ AmountIdle
    /\ RatingIdle /\ VoteIdle /\ WalkIdle /\ ProcIdle

Orders ==
    /\ grouped = NoValue
    /\ grouped' = orders(purchases.rows, purchases.limit_fits_i64,
                         purchases.debug_assertions)
    /\ UNCHANGED <<purchases, dealVars, priceVars, categoryVars, reviewVars,
                   amountVars, ratingVars, voteVars, walkVars, procVars>>

OrderNext == Orders

OrderSpec == OrderInit /\ [][OrderNext]_vars

(* The purchases of a list of Orders, one after the other. *)
RECURSIVE Flatten(_)
Flatten(os) ==
    IF os = <<>> THEN <<>> ELSE Head(os).purchases \o Flatten(Tail(os))

(* The number of purchases in the Orders before the k-th. *)
RECURSIVE Before(_, _)
Before(os, k) ==
    IF k <= 1 THEN 0 ELSE Before(os, k - 1) + Len(os[k - 1].purchases)

(* C30: given purchase rows sorted by time descending, orders() puts every *)
(* row into exactly one Order, groups exactly the rows with equal time     *)
(* into the same Order while keeping their input order, and returns Orders *)
(* whose times are strictly decreasing.                                    *)
C30_OrderGrouping ==
    grouped # NoValue /\ purchases.limit_fits_i64 =>
        /\ grouped # Panicked
        /\ grouped.ok
        /\ LET os == grouped.val
               rows == purchases.rows
           IN  /\ Flatten(os) = [i \in 1..Len(rows) |-> [item |-> rows[i].item]]
               /\ \A k \in 1..Len(os) :
                    /\ os[k].purchases # <<>>
                    /\ \A j \in 1..Len(os[k].purchases) :
                            rows[Before(os, k) + j].time = os[k].time
               /\ \A k \in 1..(Len(os) - 1) : os[k].time > os[k + 1].time

(* Two purchases at time 2, then one at time 1. *)
C30_Witness ==
    /\ purchases # NoValue
    /\ purchases.rows = <<PurchaseRepr(2, 2), PurchaseRepr(2, 1),
                          PurchaseRepr(1, 2)>>
    /\ grouped = Ok(<<Order(2, <<[item |-> 2], [item |-> 1]>>),
                      Order(1, <<[item |-> 2]>>)>>)

====
